---- MODULE Spec2Model ----
(***************************************************************************)
(* The flip clock of flip-clock-py: the digit cells and the clock face of  *)
(* clock_digit.py, the event loop of flip_clock.py that drives them, and   *)
(* the set of frame files that flip_digits.py writes.                      *)
(***************************************************************************)
EXTENDS Integers, Sequences, FiniteSets, TLC

VARIABLES
    theClock,   \* the module-level ClockFace of flip_clock.py: its four cells, stepping, disp_fmt
    hours,      \* main(): the driver's tracked hour
    mins,       \* main(): the driver's tracked minute
    run_fast,   \* main(): demo mode
    nticks,     \* clock_tick calls since the last set_clock (bounded by MaxTicks)
    op,         \* the last operation and its arguments
    req,        \* the frame keys ClockDigit.update() asked for during the last operation
    ret,        \* what ClockDigit.do_step returned for each cell in the last ClockFace.do_step
    casc,       \* the cascade in progress: how it was armed and the do_step calls since
    calls,      \* per cell: how it was last armed and the ClockDigit.do_step calls since
    asset       \* flip_digits.py: the state of the asset run (idle while the clock runs)

vars == <<theClock, hours, mins, run_fast, nticks, op, req, ret, casc, calls, asset>>

-----------------------------------------------------------------------------
(* clock_digit.py: constants *)

HR24 == 0
HR12 == 1
HR12B == 2
NUM_FMTS == 3
DEFAULT_FMT == HR12
MAX_STEP == 4

\* The four cells, least significant first: the order ClockFace.do_step checks them in
\* The "or" chain of ClockFace.do_step written from high to low
CellOrder_high_first == <<"hr10", "hr01", "min10", "min01">>

CellOrder == <<"min01", "min10", "hr01", "hr10">>
Cells == {"min01", "min10", "hr01", "hr10"}

\* ClockFace.set_disp_fmt: the alphabet of the tens-hour cell per display format
Hr10Digits(fmt) ==
    IF fmt = HR24 THEN <<"0", "1", "2">>
    ELSE IF fmt = HR12 THEN <<"0", "1">>
    ELSE <<"x", "1">>

-----------------------------------------------------------------------------
(* clock_digit.py: ClockDigit *)

\* ClockDigit.__init__
ClockDigit(digits) ==
    [digits |-> digits, curr_idx |-> 0, next_idx |-> 0, step |-> 0]

\* Python's s[i]: 0-based, a negative index counts from the end, anything else raises IndexError
PyIndex(s, i) ==
    IF 0 <= i /\ i < Len(s) THEN s[i + 1]
    ELSE IF -Len(s) <= i /\ i < 0 THEN s[Len(s) + i + 1]
    ELSE "IndexError"

\* ClockDigit.get_image_path: the frame key <current digit><next digit><step>
get_image_path(c) ==
    <<PyIndex(c.digits, c.curr_idx), PyIndex(c.digits, c.next_idx), c.step>>

\* ClockDigit.set with line 47 left out: next_idx keeps its old value
ClockDigit_set_curr_only(c, digit) ==
    [c EXCEPT !.curr_idx = digit % Len(c.digits), !.step = 0]

\* ClockDigit.set: the cell after set(digit)
ClockDigit_set(c, digit) ==
    [c EXCEPT !.curr_idx = digit % Len(c.digits),
              !.next_idx = digit % Len(c.digits),
              !.step = 0]

\* ClockDigit.do_step with "step > MAX_STEP" for "step >= MAX_STEP"
ClockDigit_do_step_late(c) ==
    IF c.curr_idx # c.next_idx
    THEN LET s == c.step + 1
             d == IF s > MAX_STEP
                  THEN [c EXCEPT !.curr_idx = c.next_idx, !.step = 0]
                  ELSE [c EXCEPT !.step = s]
         IN [cell |-> d, ret |-> TRUE, req |-> {get_image_path(d)}]
    ELSE [cell |-> c, ret |-> FALSE, req |-> {}]

\* ClockDigit.do_step: the cell afterwards, what it returns, and whether update() was called
ClockDigit_do_step(c) ==
    IF c.curr_idx # c.next_idx
    THEN LET s == c.step + 1
             d == IF s >= MAX_STEP
                  THEN [c EXCEPT !.curr_idx = c.next_idx, !.step = 0]
                  ELSE [c EXCEPT !.step = s]
         IN [cell |-> d, ret |-> TRUE, req |-> {get_image_path(d)}]
    ELSE [cell |-> c, ret |-> FALSE, req |-> {}]

-----------------------------------------------------------------------------
(* clock_digit.py: ClockFace *)

\* The 12-hour normalisation repeated in set_disp_fmt, set_digits and update_digits
NormHours(fmt, h) ==
    IF fmt # HR24
    THEN (IF h > 12 THEN h - 12 ELSE IF h = 0 THEN 12 ELSE h)
    ELSE h

\* ClockFace.set_disp_fmt that swaps the alphabet and leaves the indices alone
set_disp_fmt_swap_only(f, fmt) ==
    [f EXCEPT !.hr10 = [@ EXCEPT !.digits = Hr10Digits(fmt)], !.disp_fmt = fmt]

\* ClockFace.set_disp_fmt that resets the hour cells without the 12-hour normalisation
set_disp_fmt_no_norm(f, fmt) ==
    LET h == f.hr10.curr_idx * 10 + f.hr01.curr_idx
    IN [f EXCEPT
          !.hr10 = [digits |-> Hr10Digits(fmt), curr_idx |-> h \div 10,
                    next_idx |-> h \div 10, step |-> 0],
          !.hr01 = [@ EXCEPT !.curr_idx = h % 10, !.next_idx = h % 10, !.step = 0],
          !.disp_fmt = fmt]

\* ClockFace.set_disp_fmt that takes the hour from next_idx instead of curr_idx (line 105)
set_disp_fmt_from_next(f, fmt) ==
    LET h == NormHours(fmt, f.hr10.next_idx * 10 + f.hr01.next_idx)
    IN [f EXCEPT
          !.hr10 = [digits |-> Hr10Digits(fmt), curr_idx |-> h \div 10,
                    next_idx |-> h \div 10, step |-> 0],
          !.hr01 = [@ EXCEPT !.curr_idx = h % 10, !.next_idx = h % 10, !.step = 0],
          !.disp_fmt = fmt]

\* ClockFace.set_disp_fmt
set_disp_fmt(f, fmt) ==
    LET h == NormHours(fmt, f.hr10.curr_idx * 10 + f.hr01.curr_idx)
    IN [f EXCEPT
          !.hr10 = [digits |-> Hr10Digits(fmt), curr_idx |-> h \div 10,
                    next_idx |-> h \div 10, step |-> 0],
          !.hr01 = [@ EXCEPT !.curr_idx = h % 10, !.next_idx = h % 10, !.step = 0],
          !.disp_fmt = fmt]

\* ClockFace.__init__
ClockFace ==
    set_disp_fmt(
        [hr10 |-> ClockDigit(<<"0", "1">>),
         hr01 |-> ClockDigit(<<"0", "1", "2", "3", "4", "5", "6", "7", "8", "9">>),
         min10 |-> ClockDigit(<<"0", "1", "2", "3", "4", "5">>),
         min01 |-> ClockDigit(<<"0", "1", "2", "3", "4", "5", "6", "7", "8", "9">>),
         stepping |-> FALSE,
         disp_fmt |-> DEFAULT_FMT],
        DEFAULT_FMT)

\* ClockFace.set_digits
set_digits(f, h, m) ==
    LET n == NormHours(f.disp_fmt, h)
    IN [f EXCEPT
          !.hr10 = ClockDigit_set(@, n \div 10),
          !.hr01 = ClockDigit_set(@, n % 10),
          !.min10 = ClockDigit_set(@, m \div 10),
          !.min01 = ClockDigit_set(@, m % 10),
          !.stepping = FALSE]

\* ClockFace.update_digits without the 12-hour normalisation of lines 139-143
update_digits_no_norm(f, h, m) ==
    [f EXCEPT
        !.hr10 = [@ EXCEPT !.next_idx = h \div 10, !.step = 0],
        !.hr01 = [@ EXCEPT !.next_idx = h % 10, !.step = 0],
        !.min10 = [@ EXCEPT !.next_idx = m \div 10, !.step = 0],
        !.min01 = [@ EXCEPT !.next_idx = m % 10, !.step = 0],
        !.stepping = TRUE]

\* ClockFace.update_digits without the step resets of lines 150-151
update_digits_keep_step(f, h, m) ==
    LET n == NormHours(f.disp_fmt, h)
    IN [f EXCEPT
          !.hr10.next_idx = n \div 10,
          !.hr01.next_idx = n % 10,
          !.min10.next_idx = m \div 10,
          !.min01.next_idx = m % 10,
          !.stepping = TRUE]

\* ClockFace.update_digits without line 153: stepping is left as it was
update_digits_no_flag(f, h, m) ==
    LET n == NormHours(f.disp_fmt, h)
    IN [f EXCEPT
          !.hr10 = [@ EXCEPT !.next_idx = n \div 10, !.step = 0],
          !.hr01 = [@ EXCEPT !.next_idx = n % 10, !.step = 0],
          !.min10 = [@ EXCEPT !.next_idx = m \div 10, !.step = 0],
          !.min01 = [@ EXCEPT !.next_idx = m % 10, !.step = 0]]

\* ClockFace.update_digits without lines 145-146: the hour cells get no new target
update_digits_minutes_only(f, h, m) ==
    [f EXCEPT
        !.hr10 = [@ EXCEPT !.step = 0],
        !.hr01 = [@ EXCEPT !.step = 0],
        !.min10 = [@ EXCEPT !.next_idx = m \div 10, !.step = 0],
        !.min01 = [@ EXCEPT !.next_idx = m % 10, !.step = 0],
        !.stepping = TRUE]

\* ClockFace.update_digits
update_digits(f, h, m) ==
    LET n == NormHours(f.disp_fmt, h)
    IN [f EXCEPT
          !.hr10 = [@ EXCEPT !.next_idx = n \div 10, !.step = 0],
          !.hr01 = [@ EXCEPT !.next_idx = n % 10, !.step = 0],
          !.min10 = [@ EXCEPT !.next_idx = m \div 10, !.step = 0],
          !.min01 = [@ EXCEPT !.next_idx = m % 10, !.step = 0],
          !.stepping = TRUE]

\* The short-circuit "or" of ClockFace.do_step from position i of CellOrder on:
\* the face afterwards, each cell's return value ("-" when it was not asked), and the keys drawn
RECURSIVE StepFrom(_, _, _)
StepFrom(f, i, r) ==
    IF i > Len(CellOrder)
    THEN [face |-> [f EXCEPT !.stepping = FALSE], ret |-> r, req |-> {}]
    ELSE LET name == CellOrder[i]
             s == ClockDigit_do_step(f[name])
         IN IF s.ret
            THEN [face |-> [f EXCEPT ![name] = s.cell],
                  ret |-> [r EXCEPT ![name] = "T"], req |-> s.req]
            ELSE StepFrom(f, i + 1, [r EXCEPT ![name] = "F"])

NoRet == [c \in Cells |-> "-"]

\* ClockFace.do_step with every cell stepped in each call (no short circuit)
ClockFace_do_step_all(f) ==
    IF f.stepping
    THEN LET s == [c \in Cells |-> ClockDigit_do_step(f[c])]
             any == \E c \in Cells : s[c].ret
         IN [face |-> [hr10 |-> s["hr10"].cell, hr01 |-> s["hr01"].cell,
                       min10 |-> s["min10"].cell, min01 |-> s["min01"].cell,
                       stepping |-> any, disp_fmt |-> f.disp_fmt],
             ret |-> [c \in Cells |-> IF s[c].ret THEN "T" ELSE "F"],
             req |-> UNION {s[c].req : c \in Cells}]
    ELSE [face |-> f, ret |-> NoRet, req |-> {}]

\* ClockFace.do_step that clears stepping in the call that settles the last cell
ClockFace_do_step_eager(f) ==
    IF f.stepping
    THEN LET s == StepFrom(f, 1, NoRet)
             done == \A c \in Cells : s.face[c].curr_idx = s.face[c].next_idx
         IN [s EXCEPT !.face.stepping = ~done]
    ELSE [face |-> f, ret |-> NoRet, req |-> {}]

\* ClockFace.do_step that asks min01 only
ClockFace_do_step_min01_only(f) ==
    IF f.stepping
    THEN LET s == ClockDigit_do_step(f.min01)
         IN IF s.ret
            THEN [face |-> [f EXCEPT !.min01 = s.cell],
                  ret |-> [NoRet EXCEPT !.min01 = "T"], req |-> s.req]
            ELSE [face |-> [f EXCEPT !.stepping = FALSE],
                  ret |-> [NoRet EXCEPT !.min01 = "F"], req |-> {}]
    ELSE [face |-> f, ret |-> NoRet, req |-> {}]

\* ClockFace.do_step
ClockFace_do_step(f) ==
    IF f.stepping
    THEN StepFrom(f, 1, NoRet)
    ELSE [face |-> f, ret |-> NoRet, req |-> {}]

\* ClockFace.draw_all: the keys the four update() calls ask for
draw_all(f) == {get_image_path(f[c]) : c \in Cells}

\* The keys set_digits asks for: each ClockDigit.set ends with update()
set_digits_req(f, h, m) == {get_image_path(set_digits(f, h, m)[c]) : c \in Cells}

-----------------------------------------------------------------------------
(* flip_digits.py: the frame files the asset run writes *)

\* make_images(text): the four saveImage calls, as keys <initial digit><final digit><step>
make_images(text) ==
    {<<text[1], text[1], 0>>, <<text[1], text[2], 1>>,
     <<text[1], text[2], 2>>, <<text[1], text[2], 3>>}

\* The units loop with digits = '0123456789': the wrap from 9 to 0 is not generated
UnitsDigits_no_wrap == <<"0", "1", "2", "3", "4", "5", "6", "7", "8", "9">>

\* The main program of flip_digits.py: every make_images call it makes
UnitsDigits == <<"0", "1", "2", "3", "4", "5", "6", "7", "8", "9", "0">>
Generated ==
    UNION ({make_images(SubSeq(UnitsDigits, i, i + 1)) : i \in 1..(Len(UnitsDigits) - 1)}
           \cup {make_images(t) : t \in {<<"5", "0">>, <<"2", "1">>, <<"3", "0">>,
                                         <<"1", "0">>, <<"2", "0">>,
                                         <<"x", "1">>, <<"1", "x">>}})

-----------------------------------------------------------------------------
(* Bounds and inputs *)

\* How many of the wall-clock times below the environment may hand in
NumTimes == 6
\* clock_tick calls explored after each set_clock
MaxTicks == 4
\* How far beyond a valid time of day the raw arguments of RawSpec reach
RawMax == 2
\* The largest width and height of an image handed to convertRGB565
MaxDim == 2
\* The largest right and bottom edge of the bounding box the font reports for "0"
MaxRight == 3
MaxBottom == 6

\* Times of day (tm_hour, tm_min) that time.localtime() may return or a caller may pass
LocalTimes ==
    << <<12, 59>>, <<1, 0>>, <<9, 59>>, <<23, 59>>, <<0, 59>>, <<19, 58>>,
       <<13, 7>>, <<10, 0>>, <<20, 0>>, <<11, 59>> >>
TimeSet == {LocalTimes[i] : i \in 1..(IF NumTimes < Len(LocalTimes) THEN NumTimes ELSE Len(LocalTimes))}

\* Arguments outside a time of day as well: lo..hi is the valid range
RawRange(lo, hi) == ((lo - RawMax)..lo) \cup (hi..(hi + RawMax))

-----------------------------------------------------------------------------
(* History kept for the properties *)

Settled(c) == c.curr_idx = c.next_idx /\ c.step = 0
AllSettled(f) == \A c \in Cells : Settled(f[c])
Mismatched(f) == {c \in Cells : f[c].curr_idx # f[c].next_idx}

NoCascade == [from_settled |-> FALSE, k |-> 0, n |-> 0, h |-> 0, m |-> 0]
NoCalls == [c \in Cells |-> [armed |-> FALSE, n |-> 0]]

\* calls after a ClockFace.do_step that returned r for each cell it asked
CountCalls(cs, r) ==
    [c \in Cells |->
        IF r[c] = "-" \/ cs[c].n > MAX_STEP THEN cs[c]
        ELSE [cs[c] EXCEPT !.n = @ + 1]]

-----------------------------------------------------------------------------
(* The ClockFace operations, called in any order with valid times: FaceSpec *)

DriverIdle == hours = 0 /\ mins = 0 /\ run_fast = FALSE /\ nticks = 0

\* flip_digits.py is a separate program: it does not run while the clock does
NoAsset == [pc |-> "idle"]

InitFace ==
    /\ theClock = ClockFace
    /\ DriverIdle
    /\ op = <<"init">>
    /\ req = {}
    /\ ret = NoRet
    /\ casc = NoCascade
    /\ calls = NoCalls
    /\ asset = NoAsset

\* What set_digits does to the face and the history
DoSetDigits(h, m) ==
    /\ theClock' = set_digits(theClock, h, m)
    /\ op' = <<"set_digits", h, m>>
    /\ ret' = NoRet
    /\ casc' = NoCascade
    /\ calls' = NoCalls
    /\ UNCHANGED asset

\* What update_digits does to the face and the history
DoUpdateDigits(h, m) ==
    LET f == update_digits(theClock, h, m)
    IN /\ theClock' = f
       /\ op' = <<"update_digits", h, m>>
       /\ req' = {}
       /\ ret' = NoRet
       /\ casc' = [from_settled |-> AllSettled(theClock),
                   k |-> Cardinality(Mismatched(f)), n |-> 0, h |-> h, m |-> m]
       /\ calls' = [c \in Cells |-> [armed |-> f[c].curr_idx # f[c].next_idx, n |-> 0]]
       /\ UNCHANGED asset

\* What ClockFace.do_step does to the face and the history
DoStep ==
    LET s == ClockFace_do_step(theClock)
    IN /\ theClock' = s.face
       /\ op' = <<"do_step">>
       /\ req' = s.req
       /\ ret' = s.ret
       /\ casc' = IF theClock.stepping THEN [casc EXCEPT !.n = @ + 1] ELSE casc
       /\ calls' = CountCalls(calls, s.ret)
       /\ UNCHANGED asset

\* What set_disp_fmt does to the face and the history
DoSetDispFmt(fmt) ==
    /\ theClock' = set_disp_fmt(theClock, fmt)
    /\ op' = <<"set_disp_fmt", fmt>>
    /\ ret' = NoRet
    /\ casc' = NoCascade
    /\ calls' = [calls EXCEPT !["hr10"] = [armed |-> FALSE, n |-> 0],
                              !["hr01"] = [armed |-> FALSE, n |-> 0]]
    /\ UNCHANGED asset

FaceSetDigits ==
    \E t \in TimeSet :
        /\ DoSetDigits(t[1], t[2])
        /\ req' = set_digits_req(theClock, t[1], t[2])
        /\ UNCHANGED <<hours, mins, run_fast, nticks>>

FaceUpdateDigits ==
    \E t \in TimeSet :
        /\ DoUpdateDigits(t[1], t[2])
        /\ UNCHANGED <<hours, mins, run_fast, nticks>>

FaceDoStep ==
    /\ DoStep
    /\ UNCHANGED <<hours, mins, run_fast, nticks>>

FaceSetDispFmt ==
    \E fmt \in {HR24, HR12, HR12B} :
        /\ DoSetDispFmt(fmt)
        /\ req' = {}
        /\ UNCHANGED <<hours, mins, run_fast, nticks>>

FaceDrawAll ==
    /\ op' = <<"draw_all">>
    /\ req' = draw_all(theClock)
    /\ ret' = NoRet
    /\ UNCHANGED <<theClock, hours, mins, run_fast, nticks, casc, calls, asset>>

NextFace ==
    \/ FaceSetDigits
    \/ FaceUpdateDigits
    \/ FaceDoStep
    \/ FaceSetDispFmt
    \/ FaceDrawAll

FaceSpec == InitFace /\ [][NextFace]_vars

-----------------------------------------------------------------------------
(* flip_clock.py: the event loop of main() *)

\* set_clock: the time it sets, 12:56 in demo mode and the wall clock otherwise
set_clock(fast) == IF fast THEN {<<12, 56>>} ELSE TimeSet

\* clock_tick without lines 80-81: the hour after 23 is 24
clock_tick_no_wrap(h, m) ==
    IF m + 1 >= 60 THEN <<h + 1, 0>> ELSE <<h, m + 1>>

\* clock_tick: the time one minute later
clock_tick(h, m) ==
    IF m + 1 >= 60
    THEN <<(IF h + 1 >= 24 THEN 0 ELSE h + 1), 0>>
    ELSE <<h, m + 1>>

\* main() up to the loop: ClockFace(), then set_clock(window, run_fast = False)
Init ==
    \E t \in set_clock(FALSE) :
        /\ theClock = set_digits(ClockFace, t[1], t[2])
        /\ hours = t[1]
        /\ mins = t[2]
        /\ run_fast = FALSE
        /\ nticks = 0
        /\ op = <<"set_digits", t[1], t[2]>>
        /\ req = set_digits_req(ClockFace, t[1], t[2])
        /\ ret = NoRet
        /\ casc = NoCascade
        /\ calls = NoCalls
        /\ asset = NoAsset

\* TICK_KEY while stepping, STEP_MS after the last step: theClock.do_step()
TickStep ==
    /\ theClock.stepping
    /\ DoStep
    /\ UNCHANGED <<hours, mins, run_fast, nticks>>

\* TICK_KEY when no step is due and tick_ms have passed: clock_tick(hours, mins)
TickClock ==
    /\ nticks < MaxTicks
    /\ \E step_due \in BOOLEAN : ~(theClock.stepping /\ step_due)
    /\ LET t == clock_tick(hours, mins)
       IN /\ DoUpdateDigits(t[1], t[2])
          /\ hours' = t[1]
          /\ mins' = t[2]
    /\ nticks' = nticks + 1
    /\ UNCHANGED run_fast

\* TOP_BTN: the next display format, then draw_all()
TopBtn ==
    LET fmt == (theClock.disp_fmt + 1) % NUM_FMTS
    IN /\ DoSetDispFmt(fmt)
       /\ req' = draw_all(set_disp_fmt(theClock, fmt))
       /\ UNCHANGED <<hours, mins, run_fast, nticks>>

\* BOT_BTN: toggle demo mode, set_clock(window, run_fast), then draw_all()
BotBtn ==
    \E t \in set_clock(~run_fast) :
        /\ run_fast' = ~run_fast
        /\ DoSetDigits(t[1], t[2])
        /\ req' = set_digits_req(theClock, t[1], t[2])
                     \cup draw_all(set_digits(theClock, t[1], t[2]))
        /\ hours' = t[1]
        /\ mins' = t[2]
        /\ nticks' = 0

Next ==
    \/ TickStep
    \/ TickClock
    \/ TopBtn
    \/ BotBtn

Spec == Init /\ [][Next]_vars

\* The TICK_KEY timer keeps firing: a face that is stepping gets its do_step
LiveSpec == Init /\ [][Next]_vars /\ WF_vars(TickStep)

-----------------------------------------------------------------------------
(* One display format, set_digits once, then the minutes of the day: RunSpec *)

\* ClockFace(), set_disp_fmt(fmt), then set_digits at any time of day
InitRun ==
    \E fmt \in {HR24, HR12, HR12B}, h \in 0..23, m \in 0..59 :
        /\ theClock = set_digits(set_disp_fmt(ClockFace, fmt), h, m)
        /\ hours = h
        /\ mins = m
        /\ run_fast = FALSE
        /\ nticks = 0
        /\ op = <<"set_digits", h, m>>
        /\ req = set_digits_req(set_disp_fmt(ClockFace, fmt), h, m)
        /\ ret = NoRet
        /\ casc = NoCascade
        /\ calls = NoCalls
        /\ asset = NoAsset

\* clock_tick once the cascade of the minute before has run to its end
RunTick ==
    /\ ~theClock.stepping
    /\ LET t == clock_tick(hours, mins)
       IN /\ DoUpdateDigits(t[1], t[2])
          /\ hours' = t[1]
          /\ mins' = t[2]
    /\ UNCHANGED <<run_fast, nticks>>

\* theClock.do_step() while the face is stepping
RunStep ==
    /\ theClock.stepping
    /\ DoStep
    /\ UNCHANGED <<hours, mins, run_fast, nticks>>

NextRun ==
    \/ RunTick
    \/ RunStep

RunSpec == InitRun /\ [][NextRun]_vars

-----------------------------------------------------------------------------
(* The ClockFace operations with arguments outside a time of day: RawSpec *)

RawSetDigits ==
    \E h \in RawRange(0, 23), m \in RawRange(0, 59) :
        /\ DoSetDigits(h, m)
        /\ req' = set_digits_req(theClock, h, m)
        /\ UNCHANGED <<hours, mins, run_fast, nticks>>

RawUpdateDigits ==
    \E h \in RawRange(0, 23), m \in RawRange(0, 59) :
        /\ DoUpdateDigits(h, m)
        /\ UNCHANGED <<hours, mins, run_fast, nticks>>

RawSetDispFmt ==
    \E fmt \in {HR24, HR12, HR12B} :
        /\ DoSetDispFmt(fmt)
        /\ req' = {}
        /\ UNCHANGED <<hours, mins, run_fast, nticks>>

NextRaw ==
    \/ RawSetDigits
    \/ RawUpdateDigits
    \/ RawSetDispFmt

RawSpec == InitFace /\ [][NextRaw]_vars

-----------------------------------------------------------------------------
(* flip_digits.py: convertRGB565, one image written to one file: PixelSpec *)

\* Python's & and | on non-negative integers, bit by bit
RECURSIVE BitAnd(_, _)
BitAnd(a, b) ==
    IF a = 0 \/ b = 0 THEN 0
    ELSE 2 * BitAnd(a \div 2, b \div 2) + (IF a % 2 = 1 /\ b % 2 = 1 THEN 1 ELSE 0)

RECURSIVE BitOr(_, _)
BitOr(a, b) ==
    IF a = 0 THEN b
    ELSE IF b = 0 THEN a
    ELSE 2 * BitOr(a \div 2, b \div 2) + (IF a % 2 = 1 \/ b % 2 = 1 THEN 1 ELSE 0)

\* Line 76: the 16-bit word of one (R, G, B) pixel
int16(pixel) ==
    BitOr(BitOr(BitAnd(pixel[1], 248) * 256, BitAnd(pixel[2], 252) * 8),
          BitAnd(pixel[3], 248) \div 8)

\* struct.pack('<H', v), the little-endian order
PackH_little(v) == <<v % 256, v \div 256>>

\* struct.pack('>H', v): two bytes, most significant first
PackH(v) == <<v \div 256, v % 256>>

\* struct.pack('>I', v): four bytes, most significant first
PackI(v) == <<(v \div 16777216) % 256, (v \div 65536) % 256, (v \div 256) % 256, v % 256>>

\* b'R565'
Magic == <<82, 53, 54, 53>>

\* struct.pack('>4s3I', b'R565', image.width, image.height, 0)
Header(img) == Magic \o PackI(img.width) \o PackI(img.height) \o PackI(0)

\* image.getdata(): the pixels row by row, each row left to right
RECURSIVE getdata_from(_, _)
getdata_from(img, y) ==
    IF y > img.height THEN <<>> ELSE img.rows[y] \o getdata_from(img, y + 1)
getdata(img) == getdata_from(img, 1)

\* The images handed in: every image up to MaxDim x MaxDim over two colours, and a single
\* pixel of every colour that has a channel free and the other two at 0 or 255
Palette == {<<255, 0, 0>>, <<8, 132, 255>>}
SweepColours ==
    {p \in (0..255) \X {0, 255} \X {0, 255} : TRUE}
        \cup {<<p[2], p[1], p[3]>> : p \in (0..255) \X {0, 255} \X {0, 255}}
        \cup {<<p[2], p[3], p[1]>> : p \in (0..255) \X {0, 255} \X {0, 255}}
Images ==
    {[width |-> 1, height |-> 1, rows |-> <<<<c>>>>] : c \in SweepColours}
        \cup UNION {UNION {{[width |-> w, height |-> h, rows |-> r] :
                              r \in [1..h -> [1..w -> Palette]]}
                           : w \in 1..MaxDim} : h \in 1..MaxDim}

ClockIdle ==
    /\ theClock = ClockFace
    /\ DriverIdle
    /\ op = <<"init">>
    /\ req = {}
    /\ ret = NoRet
    /\ casc = NoCascade
    /\ calls = NoCalls

ClockUnchanged == UNCHANGED <<theClock, hours, mins, run_fast, nticks, op, req, ret, casc, calls>>

\* Line 72: the output file has been opened and is empty
InitPixel ==
    /\ ClockIdle
    /\ \E img \in Images :
          asset = [pc |-> "header", image |-> img, data |-> getdata(img), output |-> <<>>]

\* Lines 73-74: the header is written
WriteHeader ==
    /\ asset.pc = "header"
    /\ asset' = [asset EXCEPT !.pc = "pixels", !.output = @ \o Header(asset.image)]
    /\ ClockUnchanged

\* Lines 75-77: the next pixel of getdata() is written
WritePixel ==
    /\ asset.pc = "pixels"
    /\ asset.data # <<>>
    /\ asset' = [asset EXCEPT !.data = Tail(@),
                              !.output = @ \o PackH(int16(Head(asset.data)))]
    /\ ClockUnchanged

\* The end of the with block: the file is closed
CloseFile ==
    /\ asset.pc = "pixels"
    /\ asset.data = <<>>
    /\ asset' = [asset EXCEPT !.pc = "closed"]
    /\ ClockUnchanged

NextPixel ==
    \/ WriteHeader
    \/ WritePixel
    \/ CloseFile

PixelSpec == InitPixel /\ [][NextPixel]_vars

-----------------------------------------------------------------------------
(* flip_digits.py: the asset run, from compute_sizes to make_colons: AssetSpec *)

RECT_RADIUS == 10
DIGIT_SEP == "black"
BLANK_FLAG == "x"

\* An image is its width, its height and its pixels px[y][x], rows and columns from 0

\* make_digit_image: what is drawn depends on the character, the size and the position
\* only; the rendering of the font is not modelled, a pixel is named by what it shows
make_digit_image(digit, w, h) ==
    LET txt == IF digit = BLANK_FLAG THEN " " ELSE digit
    IN [width |-> w, height |-> h,
        px |-> [y \in 0..(h - 1) |-> [x \in 0..(w - 1) |-> <<"glyph", txt, x, y>>]]]

\* Image.crop((left, upper, right, lower))
Crop(img, box) ==
    [width |-> box[3] - box[1], height |-> box[4] - box[2],
     px |-> [y \in 0..(box[4] - box[2] - 1) |->
                [x \in 0..(box[3] - box[1] - 1) |-> img.px[y + box[2]][x + box[1]]]]]

\* Image.paste(src, (left, upper)) on a copy of img
Paste(img, src, at) ==
    [img EXCEPT !.px =
        [y \in 0..(img.height - 1) |->
            [x \in 0..(img.width - 1) |->
                IF (x - at[1]) \in 0..(src.width - 1) /\ (y - at[2]) \in 0..(src.height - 1)
                THEN src.px[y - at[2]][x - at[1]]
                ELSE img.px[y][x]]]]

\* Image.resize(size, box=box): the resampling filter is not modelled, a pixel of the result
\* is marked as resampled around the pixel of the box it lies over
Resize(img, size, box) ==
    [width |-> size[1], height |-> size[2],
     px |-> [y \in 0..(size[2] - 1) |->
                [x \in 0..(size[1] - 1) |->
                    <<"resampled", img.px[box[2] + (y * (box[4] - box[2])) \div size[2]]
                                         [box[1] + (x * (box[3] - box[1])) \div size[1]]>>]]]

\* ImageDraw.line((x0, y, x1, y), fill, width=1): a horizontal line, clipped to the image
Line(img, x0, y, x1, fill) ==
    LET lo == IF x0 < x1 THEN x0 ELSE x1
        hi == IF x0 < x1 THEN x1 ELSE x0
    IN [img EXCEPT !.px =
           [yy \in 0..(img.height - 1) |->
               [x \in 0..(img.width - 1) |->
                   IF yy = y /\ x \in lo..hi THEN fill ELSE img.px[yy][x]]]]

\* Lines 142-144 with the bottom half of the final digit cropped and pasted instead
step2_bottom(init_img, final_img, w, h) ==
    Paste(init_img, Crop(final_img, <<0, h \div 2, w, h>>), <<0, h \div 2>>)

\* Lines 142-144: the initial image with the top half of the final one pasted over it
step2(init_img, final_img, w, h) ==
    Paste(init_img, Crop(final_img, <<0, 0, w, h \div 2>>), <<0, 0>>)

\* Lines 147-154
step1(init_img, final_img, w, h) ==
    Line(Paste(step2(init_img, final_img, w, h),
               Resize(init_img, <<w, h \div 4>>, <<0, 0, w, h \div 2>>),
               <<0, h \div 4>>),
         RECT_RADIUS, h \div 4, w - RECT_RADIUS, DIGIT_SEP)

\* Lines 157-164
step3(init_img, final_img, w, h) ==
    Line(Paste(step2(init_img, final_img, w, h),
               Resize(final_img, <<w, h \div 4>>, <<0, h \div 2, w, h>>),
               <<0, h \div 2>>),
         RECT_RADIUS, (h * 3) \div 4, w - RECT_RADIUS, DIGIT_SEP)

\* Lines 167-170: the four files make_images(text) saves, each a name and an image
saved_images(text, w, h) ==
    LET init_img == make_digit_image(text[1], w, h)
        final_img == make_digit_image(text[2], w, h)
    IN {[name |-> <<text[1], text[1], 0>>, image |-> init_img],
        [name |-> <<text[1], text[2], 1>>, image |-> step1(init_img, final_img, w, h)],
        [name |-> <<text[1], text[2], 2>>, image |-> step2(init_img, final_img, w, h)],
        [name |-> <<text[1], text[2], 3>>, image |-> step3(init_img, final_img, w, h)]}

\* Saving overwrites a file of the same name
Save(files, new) == {f \in files : f.name \notin {n.name : n \in new}} \cup new

\* Lines 182-200: the make_images calls of the main program, in order
Program ==
    [i \in 1..(Len(UnitsDigits) - 1) |-> SubSeq(UnitsDigits, i, i + 1)]
        \o << <<"5", "0">>, <<"2", "1">>, <<"3", "0">>, <<"1", "0">>, <<"2", "0">>,
              <<"x", "1">>, <<"1", "x">> >>

\* Lines 175-176 are about to run: font_size, digit_w and digit_h are 0, and the font will
\* report some bounding box for "0"
InitAsset ==
    /\ ClockIdle
    /\ \E right \in 1..MaxRight, bottom \in 1..MaxBottom :
          asset = [pc |-> "sizes", bbox |-> [right |-> right, bottom |-> bottom],
                   digit_w |-> 0, digit_h |-> 0, todo |-> Program, made |-> <<>>,
                   files |-> {}, colons |-> {}]

\* compute_sizes, line 58: the digit box, each side rounded up to an even number
ComputeSizes ==
    /\ asset.pc = "sizes"
    /\ asset' = [asset EXCEPT !.pc = "images",
                              !.digit_w = asset.bbox.right + (asset.bbox.right % 2),
                              !.digit_h = asset.bbox.bottom + (asset.bbox.bottom % 2)]
    /\ ClockUnchanged

\* The next make_images call of the main program; resize refuses a height of 0
MakeImages ==
    /\ asset.pc = "images"
    /\ asset.todo # <<>>
    /\ IF asset.digit_h \div 4 = 0
       THEN asset' = [asset EXCEPT !.pc = "ValueError"]
       ELSE asset' = [asset EXCEPT
                         !.todo = Tail(@),
                         !.made = Append(@, Head(asset.todo)),
                         !.files = Save(@, saved_images(Head(asset.todo),
                                                        asset.digit_w, asset.digit_h))]
    /\ ClockUnchanged

\* make_colons, line 202: the two colon files (their pixels are not modelled)
MakeColons ==
    /\ asset.pc = "images"
    /\ asset.todo = <<>>
    /\ asset' = [asset EXCEPT !.pc = "done", !.colons = {"colon0", "colon1"}]
    /\ ClockUnchanged

NextAsset ==
    \/ ComputeSizes
    \/ MakeImages
    \/ MakeColons

AssetSpec == InitAsset /\ [][NextAsset]_vars

-----------------------------------------------------------------------------
(* Properties *)

Triple(c) == <<c.curr_idx, c.next_idx, c.step>>
Pos(name) == CHOOSE i \in 1..Len(CellOrder) : CellOrder[i] = name
HourShown(f) == 10 * f.hr10.curr_idx + f.hr01.curr_idx
MinShown(f) == 10 * f.min10.curr_idx + f.min01.curr_idx
Changed == {c \in Cells : Triple(theClock'[c]) # Triple(theClock[c])}

\* The hour a face in format fmt is to show for hour of day h
ShownHourFor(fmt, h) ==
    IF fmt \in {HR12, HR12B}
    THEN (IF h > 12 THEN h - 12 ELSE IF h = 0 THEN 12 ELSE h)
    ELSE h

\* C1: a ClockFace.do_step call made while stepping changes (curr_idx, next_idx, step) of
\* at most one cell, that cell is the least significant one with curr_idx # next_idx, and
\* no cell changes while a less significant one is still unsettled.
C1_OneCellPerStep ==
    [][(op' = <<"do_step">> /\ theClock.stepping) =>
          /\ Cardinality(Changed) <= 1
          /\ \A c \in Changed :
                /\ c \in Mismatched(theClock)
                /\ \A d \in Mismatched(theClock) : Pos(c) <= Pos(d)
          /\ \A c \in Cells :
                (\E d \in Mismatched(theClock) : Pos(d) < Pos(c))
                    => theClock'[c] = theClock[c]]_vars

\* C1 witness: all four cells were armed, three do_step calls later only the ones-minute
\* cell has moved
C1_Witness ==
    /\ op = <<"do_step">>
    /\ casc.k = 4
    /\ casc.n = MAX_STEP - 1
    /\ theClock.min01.step = MAX_STEP - 1
    /\ \A c \in Cells \ {"min01"} :
          theClock[c].step = 0 /\ theClock[c].curr_idx # theClock[c].next_idx

\* C2 as stated: from a settled face with all four cells mismatched by update_digits,
\* 4 * MAX_STEP = 16 do_step calls are what it takes for is_stepping() to be false.
C2_IdleAfterSixteen ==
    (casc.from_settled /\ casc.k = 4 /\ casc.n = 4 * MAX_STEP) => ~theClock.stepping

\* C2 amended: stepping is still true after each of the first 4 * MAX_STEP do_step calls,
\* the cells being all settled after the last of them and not before, and the call after
\* those, the 17th, sets it false.
C2_SeventeenthStepClears ==
    (casc.from_settled /\ casc.k = 4) =>
        /\ theClock.stepping <=> casc.n <= 4 * MAX_STEP
        /\ casc.n = 4 * MAX_STEP => AllSettled(theClock)
        /\ casc.n < 4 * MAX_STEP => ~AllSettled(theClock)

\* C2 witness: the call after the sixteenth has cleared stepping
C2_Witness ==
    /\ casc.from_settled
    /\ casc.k = 4
    /\ casc.n = 4 * MAX_STEP + 1
    /\ ~theClock.stepping

\* C3: from a settled face, update_digits(h, m) that leaves k cells mismatched is followed
\* by all four cells settled on the normalized hour and on m after exactly 4 * k do_step
\* calls, and never after fewer.
C3_SettlesAfter4k ==
    casc.from_settled =>
        /\ casc.n < MAX_STEP * casc.k => ~AllSettled(theClock)
        /\ casc.n >= MAX_STEP * casc.k =>
              /\ AllSettled(theClock)
              /\ HourShown(theClock) = ShownHourFor(theClock.disp_fmt, casc.h)
              /\ MinShown(theClock) = casc.m

\* C3 witness: 12-hour format, update_digits(1, 0) with all four cells mismatched (12:59
\* before), sixteen steps later the face shows 01:00
C3_Witness ==
    /\ theClock.disp_fmt = HR12
    /\ casc.from_settled
    /\ casc.h = 1 /\ casc.m = 0
    /\ casc.k = 4
    /\ casc.n = 4 * MAX_STEP
    /\ HourShown(theClock) = 1 /\ MinShown(theClock) = 0
    /\ AllSettled(theClock)

\* C4: every frame key a ClockDigit.update() call of the main loop asks for is one that
\* flip_digits.py writes.
C4_RequestedIsGenerated == req \subseteq Generated

\* C5: ClockDigit.do_step returns true for each of the first MAX_STEP calls on a cell armed
\* with curr_idx # next_idx, the cell is settled after exactly MAX_STEP of them and not
\* before, and a call on a settled cell returns false and changes nothing.
C5_CellFlip ==
    /\ [](\A c \in Cells :
            /\ calls[c].armed =>
                  /\ calls[c].n < MAX_STEP =>
                        theClock[c].curr_idx # theClock[c].next_idx
                        /\ theClock[c].step = calls[c].n
                  /\ calls[c].n >= MAX_STEP => Settled(theClock[c])
            /\ (op = <<"do_step">> /\ ret[c] # "-") =>
                  (ret[c] = "T" <=> (calls[c].armed /\ calls[c].n <= MAX_STEP)))
    /\ [][op' = <<"do_step">> =>
            \A c \in Cells :
                theClock[c].curr_idx = theClock[c].next_idx
                    => (theClock'[c] = theClock[c] /\ ret'[c] # "T")]_vars

\* C5 witness: a cell armed unsettled has been stepped MAX_STEP times and then once more,
\* which returned false
C5_Witness ==
    /\ op = <<"do_step">>
    /\ calls["min10"].armed
    /\ calls["min10"].n = MAX_STEP + 1
    /\ ret["min10"] = "F"
    /\ Settled(theClock.min10)

\* C6: every cell's curr_idx and next_idx index its current alphabet.
C6_IndicesInRange ==
    \A c \in Cells :
        /\ 0 <= theClock[c].curr_idx /\ theClock[c].curr_idx < Len(theClock[c].digits)
        /\ 0 <= theClock[c].next_idx /\ theClock[c].next_idx < Len(theClock[c].digits)

\* C6 witness: set_disp_fmt to a two-symbol alphabet in the middle of a cascade
C6_Witness ==
    /\ op = <<"set_disp_fmt", HR12B>>
    /\ theClock.stepping
    /\ theClock.min01.step > 0
    /\ theClock.min10.curr_idx # theClock.min10.next_idx

\* C7: every cell has 0 <= step <= MAX_STEP, and step = 0 whenever curr_idx = next_idx.
C7_StepRange ==
    \A c \in Cells :
        /\ 0 <= theClock[c].step /\ theClock[c].step <= MAX_STEP
        /\ theClock[c].curr_idx = theClock[c].next_idx => theClock[c].step = 0

\* C7 witness: a cell on the last frame of its flip (step = MAX_STEP - 1) next to a settled
\* cell and to one still waiting with step 0
C7_Witness ==
    /\ op = <<"do_step">>
    /\ theClock.min10.step = MAX_STEP - 1
    /\ theClock.min10.curr_idx # theClock.min10.next_idx
    /\ Settled(theClock.min01)
    /\ theClock.hr01.curr_idx # theClock.hr01.next_idx
    /\ theClock.hr01.step = 0

HourNormalized(f) ==
    IF f.disp_fmt = HR24
    THEN HourShown(f) \in 0..23
    ELSE HourShown(f) \in 1..12

\* C8 as stated: in every reachable state, mid-cascade too, the hour shown by the two hour
\* cells is normalized for the active format.
C8_HourAlwaysNormalized == HourNormalized(theClock)

\* C8 amended: in every state of the main loop in which both hour cells have
\* curr_idx = next_idx, the hour shown is normalized for the active format.
C8_HourNormalizedWhenSettled ==
    (theClock.hr10.curr_idx = theClock.hr10.next_idx
        /\ theClock.hr01.curr_idx = theClock.hr01.next_idx)
        => HourNormalized(theClock)

\* C8 witness: the format button turned a 24-hour 23 into a 12-hour 11
C8_Witness ==
    /\ op = <<"set_disp_fmt", HR12>>
    /\ hours = 23
    /\ HourShown(theClock) = 11
    /\ theClock.hr10.curr_idx = theClock.hr10.next_idx
    /\ theClock.hr01.curr_idx = theClock.hr01.next_idx

\* The value each cell is handed by set_digits(h, m) or update_digits(h, m)
Handed(f, h, m) ==
    LET n == NormHours(f.disp_fmt, h)
    IN [hr10 |-> n \div 10, hr01 |-> n % 10, min10 |-> m \div 10, min01 |-> m % 10]

\* C9: whatever integer a cell is handed as its target, by set_digits or by update_digits,
\* its next_idx is that value modulo the alphabet length and lies in [0, L).
C9_TargetIsModulo ==
    op[1] \in {"set_digits", "update_digits"} =>
        \A c \in Cells :
            /\ theClock[c].next_idx
                  = Handed(theClock, op[2], op[3])[c] % Len(theClock[c].digits)
            /\ 0 <= theClock[c].next_idx
            /\ theClock[c].next_idx < Len(theClock[c].digits)

\* C10: set_digits(h, m) leaves all four cells settled and stepping false, showing m and
\* the hour normalized for the active format.
C10_SetDigits ==
    op[1] = "set_digits" =>
        /\ AllSettled(theClock)
        /\ ~theClock.stepping
        /\ MinShown(theClock) = op[3]
        /\ HourShown(theClock) = ShownHourFor(theClock.disp_fmt, op[2])

\* C10 witness: 12-hour set_digits(0, 59) shows 12:59
C10_Witness ==
    /\ op = <<"set_digits", 0, 59>>
    /\ theClock.disp_fmt = HR12
    /\ HourShown(theClock) = 12
    /\ MinShown(theClock) = 59

\* The digit each cell is to show for hour of day h and minute m in format fmt
DigitsFor(fmt, h, m) ==
    [hr10 |-> ShownHourFor(fmt, h) \div 10, hr01 |-> ShownHourFor(fmt, h) % 10,
     min10 |-> m \div 10, min01 |-> m % 10]

\* C11: update_digits(h, m) leaves every curr_idx unchanged, resets every step to 0, sets
\* every next_idx to the digit of the normalized time and sets stepping, whether or not a
\* cascade was still in progress.
C11_UpdateDigitsFrame ==
    [][op'[1] = "update_digits" =>
          /\ \A c \in Cells :
                /\ theClock'[c].curr_idx = theClock[c].curr_idx
                /\ theClock'[c].step = 0
                /\ theClock'[c].next_idx = DigitsFor(theClock.disp_fmt, op'[2], op'[3])[c]
                /\ theClock'[c].digits = theClock[c].digits
          /\ theClock'.stepping
          /\ theClock'.disp_fmt = theClock.disp_fmt]_vars

\* C11 witness: update_digits issued on a face that was not settled, while the ones-minute
\* cell still differs from its new target
C11_Witness ==
    /\ op[1] = "update_digits"
    /\ ~casc.from_settled
    /\ theClock.stepping
    /\ theClock.min01.curr_idx # theClock.min01.next_idx
    /\ theClock.min01.step = 0

RECURSIVE BigEndian(_)
BigEndian(bytes) ==
    IF bytes = <<>> THEN 0
    ELSE 256 * BigEndian(SubSeq(bytes, 1, Len(bytes) - 1)) + bytes[Len(bytes)]

\* C13: the file convertRGB565 writes for a W x H image has 16 + 2*W*H bytes: "R565",
\* W, H and 0 as big-endian 32-bit numbers, then one big-endian 16-bit word per pixel, row
\* by row, whose top 5 bits are R >> 3, middle 6 bits G >> 2 and low 5 bits B >> 3.
C13_Rgb565File ==
    asset.pc = "closed" =>
        LET img == asset.image
            out == asset.output
            W == img.width
            H == img.height
        IN /\ Len(out) = 16 + 2 * W * H
           /\ \A i \in 1..Len(out) : out[i] \in 0..255
           /\ SubSeq(out, 1, 4) = <<82, 53, 54, 53>>
           /\ BigEndian(SubSeq(out, 5, 8)) = W
           /\ BigEndian(SubSeq(out, 9, 12)) = H
           /\ BigEndian(SubSeq(out, 13, 16)) = 0
           /\ \A y \in 1..H : \A x \in 1..W :
                 LET at == 16 + 2 * ((y - 1) * W + (x - 1))
                     word == BigEndian(SubSeq(out, at + 1, at + 2))
                     p == img.rows[y][x]
                 IN /\ word \in 0..65535
                    /\ word \div 2048 = p[1] \div 8
                    /\ (word \div 32) % 64 = p[2] \div 4
                    /\ word % 32 = p[3] \div 8

\* C13 witness: a 2 x 2 image whose rows differ has been written
C13_Witness ==
    /\ asset.pc = "closed"
    /\ asset.image.width = 2
    /\ asset.image.height = 2
    /\ asset.image.rows[1] # asset.image.rows[2]
    /\ asset.image.rows[1][1] # asset.image.rows[1][2]
    /\ Len(asset.output) = 24

\* The files of the asset run, by name
FileNames == {f.name : f \in asset.files}
FileNamed(name) == CHOOSE f \in asset.files : f.name = name

\* C14: in every file <initial><final>2 that make_images has saved, each row of the top half
\* is the same row of the final digit's image and each row of the bottom half is the same
\* row of the initial digit's image; every file <initial><initial>0 is the initial digit's
\* image, untouched.
C14_Step2Halves ==
    asset.pc \in {"images", "done"} =>
        \A f \in asset.files :
            LET W == asset.digit_w
                H == asset.digit_h
                init_img == make_digit_image(f.name[1], W, H)
                final_img == make_digit_image(f.name[2], W, H)
            IN /\ f.name[3] = 2 =>
                     /\ f.image.width = W /\ f.image.height = H
                     /\ \A y \in 0..(H - 1) :
                           f.image.px[y] = IF 2 * y < H THEN final_img.px[y]
                                                        ELSE init_img.px[y]
               /\ f.name[3] = 0 => f.image = init_img

\* C14 witness: the frames of "x1" and "90" are saved, 4 wide and 6 high, and in "902" the
\* rows 2 and 3 come from different digits
C14_Witness ==
    /\ asset.pc = "done"
    /\ asset.digit_w = 4
    /\ asset.digit_h = 6
    /\ {<<"x", "1", 2>>, <<"x", "x", 0>>, <<"9", "0", 2>>} \subseteq FileNames
    /\ FileNamed(<<"9", "0", 2>>).image.px[2][0] = <<"glyph", "0", 0, 2>>
    /\ FileNamed(<<"9", "0", 2>>).image.px[3][0] = <<"glyph", "9", 0, 3>>

\* The five alphabets of the clock's digit positions
Alphabets ==
    {<<"0", "1", "2", "3", "4", "5", "6", "7", "8", "9">>,
     <<"0", "1", "2", "3", "4", "5">>, <<"0", "1", "2">>, <<"0", "1">>, <<"x", "1">>}

\* C15: when the asset run is done, steps 1..3 exist for every adjacent wrap-around pair of
\* each of the five alphabets, a step-0 file exists for every character of a generated
\* pair, and the step-0 file of each to-character was written by a make_images call for
\* another pair, one that starts with that character.
C15_AssetRunCoverage ==
    asset.pc = "done" =>
        /\ \A a \in Alphabets : \A i \in 1..Len(a) : \A k \in 1..3 :
              <<a[i], a[(i % Len(a)) + 1], k>> \in FileNames
        /\ \A n \in FileNames :
              /\ <<n[1], n[1], 0>> \in FileNames
              /\ <<n[2], n[2], 0>> \in FileNames
              /\ n[3] > 0 =>
                    \E j \in 1..Len(asset.made) :
                        /\ asset.made[j][1] = n[2]
                        /\ asset.made[j] # <<n[1], n[2]>>

\* C15 witness: the run is done and has written the wrap pairs 9 -> 0, 5 -> 0, 2 -> 0,
\* 1 -> 0 and 1 -> blank, and the blank's settled image
C15_Witness ==
    /\ asset.pc = "done"
    /\ asset.colons = {"colon0", "colon1"}
    /\ {<<"9", "0", 1>>, <<"5", "0", 2>>, <<"2", "0", 3>>, <<"1", "0", 1>>,
        <<"1", "x", 3>>, <<"x", "x", 0>>} \subseteq FileNames

\* C16: in a fixed display format, from set_digits at any time of day and then through the
\* minutes of the day with each cascade stepped to its end before the next clock_tick,
\* every frame key that ClockDigit.update() asks for is one the asset run generates.
C16_RunRequestsGenerated == req \subseteq Generated

\* C16 witness: midnight in the 24-hour format, the tens of hours half way from 2 to 0
C16_Witness ==
    /\ theClock.disp_fmt = HR24
    /\ op = <<"do_step">>
    /\ hours = 0
    /\ mins = 0
    /\ req = {<<"2", "0", 2>>}
    /\ Settled(theClock.hr01)

\* C17: whenever the face is not stepping and all cells are settled, in any state the main
\* loop reaches, the four digits shown are the driver's (hours, mins) with the hour
\* normalized for the active display format.
C17_SettledShowsDriverTime ==
    (~theClock.stepping /\ AllSettled(theClock)) =>
        /\ HourShown(theClock) = ShownHourFor(theClock.disp_fmt, hours)
        /\ MinShown(theClock) = mins

\* C18: in every reachable state a face that is not stepping has all four cells settled,
\* and a ClockFace.do_step call turns stepping off only when it asked every cell and none
\* reported a change; such a call changes nothing else.
C18_SteppingFlag ==
    /\ [](~theClock.stepping => AllSettled(theClock))
    /\ [][(op'[1] = "do_step" /\ theClock.stepping /\ ~theClock'.stepping) =>
             /\ \A c \in Cells : ret'[c] = "F"
             /\ theClock' = [theClock EXCEPT !.stepping = FALSE]]_vars

\* C18 witness: a cascade of two cells has been stepped and the call after its last step has
\* turned stepping off
C18_Witness ==
    /\ op = <<"do_step">>
    /\ ~theClock.stepping
    /\ \A c \in Cells : ret[c] = "F"
    /\ casc.k = 2
    /\ casc.n = 2 * MAX_STEP + 1
    /\ AllSettled(theClock)

\* The cells less significant than a cell
LessSignificant ==
    [hr10 |-> {"hr01", "min10", "min01"}, hr01 |-> {"min10", "min01"},
     min10 |-> {"min01"}, min01 |-> {}]

\* C19: in every reachable state a cell with step > 0 has every less significant cell at
\* curr_idx = next_idx, and at most one cell has step > 0; update_digits, set_digits and
\* set_disp_fmt in the middle of a cascade do not break this.
C19_OneCellMidFlip ==
    /\ \A c \in Cells :
          theClock[c].step > 0 =>
              \A d \in LessSignificant[c] : theClock[d].curr_idx = theClock[d].next_idx
    /\ Cardinality({c \in Cells : theClock[c].step > 0}) <= 1

\* C19 witness: the units of hours are mid-flip while the tens of hours wait for their
\* turn, and both minute cells are settled
C19_Witness ==
    /\ op[1] = "do_step"
    /\ theClock.hr01.step = 2
    /\ theClock.hr10.curr_idx # theClock.hr10.next_idx
    /\ theClock.min10.curr_idx = theClock.min10.next_idx
    /\ theClock.min01.curr_idx = theClock.min01.next_idx

\* Since the last update_digits nothing but do_step has been called
OnlySteps == op = <<"do_step">> /\ casc.k > 0

\* Every cell is at the digit the last update_digits asked for
AtTarget ==
    \A c \in Cells : theClock[c].curr_idx = DigitsFor(theClock.disp_fmt, casc.h, casc.m)[c]

\* C20: after an update_digits call, do_step called again and again with no update_digits,
\* set_digits or set_disp_fmt in between does not go on stepping for ever: it brings the
\* face to stepping = FALSE, and then every cell's curr_idx is at the target of that
\* update_digits; do_step never turns stepping on, so it stays off until the next
\* update_digits.
C20_CascadeTerminates ==
    /\ []<>(~theClock.stepping \/ op[1] # "do_step")
    /\ []((OnlySteps /\ ~theClock.stepping) => AtTarget)
    /\ [][(~theClock.stepping /\ theClock'.stepping) => op'[1] = "update_digits"]_vars
    /\ [][(op'[1] = "do_step" /\ ~theClock.stepping) => theClock' = theClock]_vars

\* C20 witness: the main loop has stepped the cascade of a clock_tick to its end
C20_Witness ==
    /\ OnlySteps
    /\ ~theClock.stepping
    /\ AtTarget
    /\ nticks = 1
    /\ casc.k = 4
    /\ casc.n > 4 * MAX_STEP

====
